---- MODULE Spec2Model ----
(***************************************************************************)
(* Model of src-tauri/src/main.rs: the 5-minute notification scheduler     *)
(* thread, the mutex-guarded NotificationState and its two commands, and   *)
(* the weather commands (live fetch and demo).                             *)
(*                                                                         *)
(* Time is the local wall clock in whole seconds of the hour; chrono's     *)
(* minute() and second() are read from it.  The clock is assumed monotone  *)
(* (no DST or NTP step), and a thread runs at most MaxLate seconds behind  *)
(* the instant its sleep ends.                                             *)
(***************************************************************************)
EXTENDS Integers, Sequences, FiniteSets, TLC

\* ---------------------------------------------------------------- bounds
NumCmds == 2          \* concurrent command invocations of the front-end
MaxLate == 2          \* seconds a thread may run behind the end of its sleep

\* ------------------------------------------------------ program constants
SecsPerMinute   == 60     \* chrono: second() is 0..59
MinutesPerHour  == 60     \* chrono: minute() is 0..59
BoundaryMinutes == 5      \* 5 - (current_minute % 5)
MillisPerSec    == 1000   \* ... * 1000
MinSleepMillis  == 1000   \* wait_millis.max(1000)
CooldownSecs    == 2      \* Duration::from_secs(2)
Overflow        == 0 - 1  \* marks a u32 subtraction that went below zero

SecsPerHour == SecsPerMinute * MinutesPerHour

Sched == 0                \* the scheduler thread
Cmds  == 1..NumCmds       \* command invocation contexts

VARIABLES
    clock,        \* local wall clock, seconds of the hour
    pc,           \* scheduler thread: Waiting, Sleeping, Checking, Firing, Cooldown
    remaining,    \* milliseconds left of the scheduler's current thread::sleep
    late,         \* seconds the scheduler has run since its last sleep was due
    is_enabled,   \* the scheduler's local copy of the flag
    show_result,  \* result of the scheduler's last show(): none, ok, err
    enabled,      \* NotificationState.enabled
    mutexLocked,  \* the Mutex around NotificationState
    guard,        \* contexts that own a MutexGuard
    cpc,          \* command context: idle, t_written, g_read
    carg,         \* toggle_notification's argument
    cres,         \* get_notification_state's result
    fired,        \* history: show() calls of the scheduler in the current minute
    allOn,        \* history: the flag was true all through the current boundary minute
    committed,    \* history: argument of the last toggle_notification that returned
    everOn,       \* history: some toggle_notification(true) has returned
    wcmd,         \* weather command that ran last
    wminute,      \* Local::now().minute() seen by the demo command
    wresp,        \* HTTP outcome seen by fetch_weather_info
    wresult       \* what the weather command returned

schedVars   == <<clock, pc, remaining, late, is_enabled, show_result, enabled,
                 mutexLocked, guard, cpc, carg, cres, fired, allOn, committed, everOn>>
weatherVars == <<wcmd, wminute, wresp, wresult>>
vars        == <<schedVars, weatherVars>>

Max(a, b) == IF a >= b THEN a ELSE b

\* now.minute(), now.second()
Minute(c) == c \div SecsPerMinute
Second(c) == c % SecsPerMinute

\* u32 subtraction: below zero the build either panics or wraps
U32Sub(a, b) == IF a >= b THEN a - b ELSE Overflow

MinutesToNextOff(m) == (BoundaryMinutes - 1) - (m % BoundaryMinutes)
\* let minutes_to_next = 5 - (current_minute % 5);
MinutesToNext(m) == U32Sub(BoundaryMinutes, m % BoundaryMinutes)

\* let wait_millis = if minutes_to_next == 5 && current_second == 0 { 0 }
\*                   else { ((minutes_to_next * 60) - current_second) * 1000 };
WaitMillis(m, s) ==
    LET minutes_to_next == MinutesToNext(m)
        secs == U32Sub(minutes_to_next * SecsPerMinute, s)
    IN  IF minutes_to_next = BoundaryMinutes /\ s = 0 THEN 0
        ELSE IF minutes_to_next = Overflow \/ secs = Overflow THEN Overflow
        ELSE secs * MillisPerSec

\* Duration::from_millis(wait_millis.max(1000) as u64)
WaitDuration(m, s) ==
    LET w == WaitMillis(m, s)
    IN  IF w = Overflow THEN Overflow ELSE Max(w, MinSleepMillis)

\* -------------------------------------------------------------- the mutex
Lock(ctx) ==
    /\ ~mutexLocked
    /\ mutexLocked' = TRUE
    /\ guard' = guard \cup {ctx}

Unlock(ctx) ==
    /\ mutexLocked' = FALSE
    /\ guard' = guard \ {ctx}

\* ------------------------------------------------------ the wall clock
\* One second passes.  A sleeping thread does not wake before its duration
\* is over; a running thread falls at most MaxLate seconds behind.
Tick ==
    /\ \/ /\ pc \in {"Sleeping", "Cooldown"} /\ remaining > 0
          /\ remaining' = remaining - MillisPerSec
          /\ late' = late
       \/ /\ ~(pc \in {"Sleeping", "Cooldown"} /\ remaining > 0)
          /\ late < MaxLate
          /\ late' = late + 1
          /\ remaining' = remaining
    /\ clock' = (clock + 1) % SecsPerHour
    /\ IF Second(clock) = SecsPerMinute - 1
       THEN /\ fired' = 0
            /\ allOn' = (enabled /\ Minute(clock') % BoundaryMinutes = 0)
       ELSE UNCHANGED <<fired, allOn>>
    /\ UNCHANGED <<pc, is_enabled, show_result, enabled, mutexLocked, guard,
                   cpc, carg, cres, committed, everOn>>
    /\ UNCHANGED weatherVars

\* ------------------------------------------------- the scheduler thread
\* lines 281-301: compute the wait and enter thread::sleep
ComputeWait ==
    /\ pc = "Waiting"
    /\ pc' = "Sleeping"
    /\ remaining' = WaitDuration(Minute(clock), Second(clock))
    /\ late' = 0
    /\ UNCHANGED <<clock, is_enabled, show_result, enabled, mutexLocked, guard,
                   cpc, carg, cres, fired, allOn, committed, everOn>>
    /\ UNCHANGED weatherVars

\* line 305: the sleep is over; notification_state_clone.lock().unwrap()
SchedLock ==
    /\ pc = "Sleeping"
    /\ remaining <= 0
    /\ Lock(Sched)
    /\ pc' = "Checking"
    /\ UNCHANGED <<clock, remaining, late, is_enabled, show_result, enabled,
                   cpc, carg, cres, fired, allOn, committed, everOn>>
    /\ UNCHANGED weatherVars

SchedDropGuardLate == guard' = guard /\ mutexLocked' = mutexLocked
\* line 307: the guard goes out of scope at the end of the block
SchedDropGuard == Unlock(Sched)

\* lines 306-307: copy state.enabled, drop the guard
SchedRead ==
    /\ pc = "Checking"
    /\ is_enabled' = enabled
    /\ SchedDropGuard
    /\ pc' = "Firing"
    /\ UNCHANGED <<clock, remaining, late, show_result, enabled,
                   cpc, carg, cres, fired, allOn, committed, everOn>>
    /\ UNCHANGED weatherVars

ShouldFireNoRecheck(flag, c) == flag
ShouldFireIgnoreFlag(flag, c) == Minute(c) % BoundaryMinutes = 0
\* lines 310-314: if is_enabled { let now = Local::now(); if now.minute() % 5 == 0
ShouldFire(flag, c) == flag /\ Minute(c) % BoundaryMinutes = 0

EnterCooldownNoSleep ==
    /\ pc' = "Cooldown"
    /\ remaining' = 0
    /\ late' = 0
    /\ is_enabled' = is_enabled
\* line 327: thread::sleep(Duration::from_secs(2))
EnterCooldown ==
    /\ pc' = "Cooldown"
    /\ remaining' = CooldownSecs * MillisPerSec
    /\ late' = 0
    /\ is_enabled' = is_enabled

AfterShowUnwrap(ok) ==
    IF ok THEN EnterCooldown
    ELSE /\ pc' = "Panicked"
         /\ UNCHANGED <<remaining, late, is_enabled>>
\* line 318: let _ = ... .show();  whatever show() returns, the loop goes on
AfterShow(ok) == EnterCooldown

\* lines 315-322: let _ = ...show();  the Result is discarded
SchedFire ==
    /\ pc = "Firing"
    /\ ShouldFire(is_enabled, clock)
    /\ \E ok \in BOOLEAN :
          /\ show_result' = IF ok THEN "ok" ELSE "err"
          /\ AfterShow(ok)
    /\ fired' = fired + 1
    /\ UNCHANGED <<clock, enabled, mutexLocked, guard, cpc, carg, cres,
                   allOn, committed, everOn>>
    /\ UNCHANGED weatherVars

\* lines 310, 314: the flag copy is false or the minute is no multiple of 5
SchedSkip ==
    /\ pc = "Firing"
    /\ ~ShouldFire(is_enabled, clock)
    /\ EnterCooldown
    /\ UNCHANGED <<clock, show_result, enabled, mutexLocked, guard, cpc, carg, cres,
                   fired, allOn, committed, everOn>>
    /\ UNCHANGED weatherVars

\* lines 327-328: the cooldown sleep is over, back to the top of the loop;
\* the locals of the iteration go out of scope
CooldownDone ==
    /\ pc = "Cooldown"
    /\ remaining <= 0
    /\ pc' = "Waiting"
    /\ show_result' = "none"
    /\ is_enabled' = FALSE
    /\ UNCHANGED <<clock, remaining, late, enabled, mutexLocked, guard,
                   cpc, carg, cres, fired, allOn, committed, everOn>>
    /\ UNCHANGED weatherVars

SchedNext == ComputeWait \/ SchedLock \/ SchedRead \/ SchedFire \/ SchedSkip
             \/ CooldownDone

\* ------------------------------------------------ toggle_notification
\* lines 57-58: app_state.lock(), then state.enabled = enabled
ToggleLockWrite(c, b) ==
    /\ cpc[c] = "idle"
    /\ Lock(c)
    /\ enabled' = b
    /\ allOn' = (allOn /\ b)
    /\ cpc' = [cpc EXCEPT ![c] = "t_written"]
    /\ carg' = [carg EXCEPT ![c] = b]
    /\ UNCHANGED <<clock, pc, remaining, late, is_enabled, show_result,
                   cres, fired, committed, everOn>>
    /\ UNCHANGED weatherVars

\* lines 59-60: Ok(()), the guard is dropped on return
ToggleReturn(c) ==
    /\ cpc[c] = "t_written"
    /\ Unlock(c)
    /\ committed' = carg[c]
    /\ everOn' = (everOn \/ carg[c])
    /\ cpc' = [cpc EXCEPT ![c] = "idle"]
    /\ carg' = [carg EXCEPT ![c] = FALSE]
    /\ UNCHANGED <<clock, pc, remaining, late, is_enabled, show_result, enabled,
                   cres, fired, allOn>>
    /\ UNCHANGED weatherVars

\* --------------------------------------------- get_notification_state
GetLockUnguarded(c) == mutexLocked' = mutexLocked /\ guard' = guard
\* line 67: app_state.lock()
GetLock(c) == Lock(c)

\* lines 67-68: lock, then evaluate state.enabled
GetLockRead(c) ==
    /\ cpc[c] = "idle"
    /\ GetLock(c)
    /\ cres' = [cres EXCEPT ![c] = enabled]
    /\ cpc' = [cpc EXCEPT ![c] = "g_read"]
    /\ UNCHANGED <<clock, pc, remaining, late, is_enabled, show_result, enabled,
                   carg, fired, allOn, committed, everOn>>
    /\ UNCHANGED weatherVars

\* lines 68-69: Ok(value), the guard is dropped on return
GetReturn(c) ==
    /\ cpc[c] = "g_read"
    /\ Unlock(c)
    /\ cpc' = [cpc EXCEPT ![c] = "idle"]
    /\ cres' = [cres EXCEPT ![c] = FALSE]
    /\ UNCHANGED <<clock, pc, remaining, late, is_enabled, show_result, enabled,
                   carg, fired, allOn, committed, everOn>>
    /\ UNCHANGED weatherVars

CmdNext ==
    \E c \in Cmds :
        \/ \E b \in BOOLEAN : ToggleLockWrite(c, b)
        \/ ToggleReturn(c)
        \/ GetLockRead(c)
        \/ GetReturn(c)

\* ------------------------------------------------------- specification
\* line 254: NotificationState { enabled: false }; the thread starts at any instant
InitSched(starts) ==
    /\ clock \in starts
    /\ pc = "Waiting"
    /\ remaining = 0
    /\ late = 0
    /\ is_enabled = FALSE
    /\ show_result = "none"
    /\ enabled = FALSE
    /\ mutexLocked = FALSE
    /\ guard = {}
    /\ cpc = [c \in Cmds |-> "idle"]
    /\ carg = [c \in Cmds |-> FALSE]
    /\ cres = [c \in Cmds |-> FALSE]
    /\ fired = 0
    /\ allOn = FALSE
    /\ committed = FALSE
    /\ everOn = FALSE

InitWeather ==
    /\ wcmd = "none"
    /\ wminute = 0
    /\ wresp = [kind |-> "none"]
    /\ wresult = [kind |-> "none"]

Init == InitSched(0..(SecsPerHour - 1)) /\ InitWeather

Next == Tick \/ SchedNext \/ CmdNext

Spec == Init /\ [][Next]_vars

\* The wall clock is stepped one minute forward (clock adjustment, suspend)
\* while the scheduler is inside thread::sleep, which counts monotonic time.
ClockStep ==
    /\ pc = "Sleeping"
    /\ clock' = (clock + SecsPerMinute) % SecsPerHour
    /\ fired' = 0
    /\ allOn' = FALSE
    /\ UNCHANGED <<pc, remaining, late, is_enabled, show_result, enabled, mutexLocked,
                   guard, cpc, carg, cres, committed, everOn>>
    /\ UNCHANGED weatherVars

DriftNext == Tick \/ SchedNext \/ CmdNext \/ ClockStep

\* the scheduler under a wall clock that can be stepped
DriftSpec == Init /\ [][DriftNext]_vars

\* Threads that can run do run, time passes, and a thread blocked in lock()
\* gets the mutex once it is free often enough.
FairSpec ==
    /\ Spec
    /\ WF_vars(Tick)
    /\ WF_vars(ComputeWait \/ SchedRead \/ SchedFire \/ SchedSkip \/ CooldownDone)
    /\ SF_vars(SchedLock)
    /\ \A c \in Cmds :
          WF_vars(ToggleReturn(c) \/ GetReturn(c))

\* ======================================================= scheduler claims
IsBoundary(c) == Minute(c) % BoundaryMinutes = 0

\* C1 as claimed: in a boundary minute (minute a multiple of 5) all
\* through which the enabled flag is true the scheduler calls show() exactly
\* once; it never calls show() twice within one minute, and never during
\* the 2-second cooldown sleep, whatever instant the loop was started at.
OncePerBoundaryAsClaimed ==
    /\ [](fired <= 1)
    /\ [][pc = "Cooldown" => fired' <= fired]_vars
    /\ [][(Second(clock) = SecsPerMinute - 1 /\ clock' # clock
           /\ IsBoundary(clock) /\ allOn) => fired = 1]_vars

\* C1 as amended: the scheduler never calls show() twice within one
\* minute and never during the cooldown sleep, whatever instant the loop
\* was started at; it calls show() exactly once in a boundary minute in
\* which its check finds the flag copy true, and not at all in a minute in
\* which its check fails.
OncePerBoundary ==
    /\ [](fired <= 1)
    /\ [][pc = "Cooldown" => fired' <= fired]_vars
    /\ [][(pc = "Firing" /\ pc' # "Firing")
            => fired' = (IF is_enabled /\ IsBoundary(clock) THEN 1 ELSE 0)]_vars

\* C1 witness: a boundary minute with the flag true throughout, notified
\* once, the scheduler back asleep until the next boundary.
OncePerBoundaryWitness ==
    /\ IsBoundary(clock) /\ allOn /\ fired = 1
    /\ pc = "Sleeping" /\ Second(clock) > CooldownSecs

\* C2: the value read under the lock by get_notification_state or by the
\* scheduler's Checking step is the argument of the last toggle_notification
\* that returned (false when none has), and no step of
\* get_notification_state changes the flag.
LastWriteWins ==
    /\ [][(pc = "Checking" /\ pc' = "Firing") => is_enabled' = committed]_vars
    /\ [][\A c \in Cmds : (cpc[c] = "idle" /\ cpc'[c] = "g_read")
                            => cres'[c] = committed]_vars
    /\ [][\A c \in Cmds : (cpc[c] # cpc'[c] /\ "g_read" \in {cpc[c], cpc'[c]})
                            => enabled' = enabled]_vars

\* C2 witness: get_notification_state has read true under the lock after a
\* toggle_notification(true) returned.
LastWriteWinsWitness ==
    \E c \in Cmds : /\ cpc[c] = "g_read" /\ cres[c] = TRUE
                    /\ committed = TRUE /\ everOn

\* C6: the Waiting step sleeps max(1000, w) ms with
\* minutes_to_next = 5 - (m mod 5), w = 0 when minutes_to_next = 5 and s = 0,
\* else w = (minutes_to_next*60 - s)*1000; the subtraction stays >= 0 and
\* the sleep lies in 1000..300000; 12:03:00 gives 120000, 12:05:00 gives 1000.
WaitContract ==
    [][(pc = "Waiting" /\ pc' = "Sleeping") =>
        LET m == Minute(clock)
            s == Second(clock)
            mtn == 5 - (m % 5)
            w == IF mtn = 5 /\ s = 0 THEN 0 ELSE (mtn * 60 - s) * 1000
        IN  /\ mtn * 60 - s >= 0
            /\ remaining' = (IF w >= 1000 THEN w ELSE 1000)
            /\ remaining' \in 1000..300000
            /\ (m = 3 /\ s = 0 => remaining' = 120000)
            /\ (m = 5 /\ s = 0 => remaining' = 1000)]_vars

\* C6 witness: started at minute 3, second 0, the thread sleeps 120000 ms.
WaitContractWitness ==
    /\ pc = "Sleeping" /\ remaining = 120000
    /\ Minute(clock) = 3 /\ Second(clock) = 0

\* C8: the scheduler calls show() only from Firing, with a flag copy that
\* is true and in a minute that is a multiple of 5; so never before a
\* toggle_notification(true) has returned; when the copy is false or the
\* minute check fails it goes on to Cooldown with nothing else changed.
FireOnlyEnabledAtBoundary ==
    /\ [][fired' > fired => (pc = "Firing" /\ is_enabled /\ IsBoundary(clock))]_vars
    /\ [](fired > 0 => everOn)
    /\ [][(pc = "Firing" /\ pc' # "Firing" /\ ~(is_enabled /\ IsBoundary(clock)))
            => /\ pc' = "Cooldown"
               /\ UNCHANGED <<fired, show_result, enabled, mutexLocked, guard>>]_vars

\* C8 witness: the scheduler woke with the flag set but in a minute that is
\* no multiple of 5, and went to Cooldown without calling show().
FireOnlyEnabledAtBoundaryWitness ==
    /\ pc = "Cooldown" /\ is_enabled /\ ~IsBoundary(clock)
    /\ fired = 0 /\ show_result = "none"
    /\ remaining = CooldownSecs * MillisPerSec /\ late = 0

\* C9: at most one context owns the mutex guard, and the scheduler owns
\* none while it computes, sleeps, fires or cools down.
LockHeldBriefly ==
    /\ Cardinality(guard) <= 1
    /\ (mutexLocked <=> guard # {})
    /\ (pc \in {"Waiting", "Sleeping", "Firing", "Cooldown"} => Sched \notin guard)

\* C9 witness: a command owns the lock while the scheduler is in its
\* cooldown sleep.
LockHeldBrieflyWitness ==
    /\ pc = "Cooldown" /\ remaining > 0
    /\ \E c \in Cmds : c \in guard /\ cpc[c] = "t_written"

\* C10: the loop always comes back to Waiting; a failed show() changes
\* neither the flag nor the course of the loop (Cooldown, then Waiting).
LoopNeverEnds ==
    /\ []<>(pc = "Waiting")
    /\ [][(show_result' = "err" /\ show_result # "err")
            => (pc' = "Cooldown" /\ enabled' = enabled)]_vars

\* C10 witness: show() has failed and the scheduler is in Cooldown.
LoopNeverEndsWitness ==
    /\ show_result = "err" /\ pc = "Cooldown" /\ enabled

\* ======================================================== weather commands
\* Japanese texts of the source are written in Latin letters:
\* "fumei" (unknown), "hare" (clear), "kumori" (cloudy), "kosame" (light rain).
DefaultHumidity == 50     \* let humidity = 50;
DemoLen         == 3      \* now.minute() % 3

\* serde_json::Value
JNull   == [t |-> "null"]
JStr(s) == [t |-> "str", s |-> s]
JArr(a) == [t |-> "arr", a |-> a]
JObj(o) == [t |-> "obj", o |-> o]

\* value[i]: Value::Null when value is no array or i is out of range
IndexN(v, i) == IF v.t = "arr" /\ i < Len(v.a) THEN v.a[i + 1] ELSE JNull
\* value["key"]: Value::Null when value is no object or has no such key
IndexK(v, k) == IF v.t = "obj" /\ k \in DOMAIN v.o THEN v.o[k] ELSE JNull
\* value.as_str(): Some(text) for a JSON string, else None
AsStr(v) == IF v.t = "str" THEN <<v.s>> ELSE <<>>
\* Option::unwrap_or, Result::unwrap_or
UnwrapOr(opt, d) == IF opt = <<>> THEN d ELSE opt[1]

\* str::parse::<f64>() on the temperature texts used here, in tenths of a degree
ParseF64(text) ==
    CASE text = "22.5" -> <<225>>
      [] text = "8"    -> <<80>>
      [] text = "-3.1" -> <<0 - 31>>
      [] text = "0"    -> <<0>>
      [] OTHER         -> <<>>

\* lines 95-103: the arms of the match on the weather code, in source order
IconArms == <<
    [codes |-> {"100", "123", "124", "130", "131"}, icon |-> "01d"],
    [codes |-> {"101", "132", "140", "160", "170"}, icon |-> "02d"],
    [codes |-> {"102", "104", "115", "116", "141", "142"}, icon |-> "03d"],
    [codes |-> {"103", "106", "107", "108", "128", "143", "150"}, icon |-> "04d"],
    [codes |-> {"110", "111", "112", "113", "114", "118", "119", "125",
                "126", "127", "153", "154", "155", "181"}, icon |-> "09d"],
    [codes |-> {"117", "181"}, icon |-> "11d"],
    [codes |-> {"120", "121", "122", "156", "157", "160"}, icon |-> "13d"] >>

MatchingArms(code) == {i \in 1..Len(IconArms) : code \in IconArms[i].codes}

IconLastArm(code) ==
    IF MatchingArms(code) = {} THEN "50d"
    ELSE IconArms[CHOOSE i \in MatchingArms(code) :
                     \A j \in MatchingArms(code) : j <= i].icon
\* a match takes the first arm whose pattern matches; _ => "50d"
Icon(code) ==
    IF MatchingArms(code) = {} THEN "50d"
    ELSE IconArms[CHOOSE i \in MatchingArms(code) :
                     \A j \in MatchingArms(code) : i <= j].icon

Ok(info) == [kind |-> "Ok", info |-> info]
Err(e)   == [kind |-> "Err", err |-> e]

\* response.status().is_success()
IsSuccess(status) == 200 <= status /\ status <= 299

\* lines 78-112: field extraction from the parsed document
ExtractWeather(data) ==
    LET weather_data == IndexN(IndexK(IndexN(IndexK(IndexN(data, 0),
                            "timeSeries"), 0), "areas"), 0)
        weather_code == UnwrapOr(AsStr(IndexN(IndexK(weather_data, "weatherCodes"), 0)), "")
        weather_description ==
            UnwrapOr(AsStr(IndexN(IndexK(weather_data, "weathers"), 0)), "fumei")
        temp_data == IndexN(IndexK(IndexN(IndexK(IndexN(data, 0),
                            "timeSeries"), 2), "areas"), 0)
        temperature ==
            UnwrapOr(ParseF64(UnwrapOr(AsStr(IndexN(IndexK(temp_data, "temps"), 0)), "0")), 0)
    IN  [description |-> weather_description,
         temperature |-> temperature,
         weather_code |-> weather_code,
         humidity |-> DefaultHumidity,
         icon |-> Icon(weather_code)]

FetchWeatherInfoStrict(resp) ==
    IF resp.kind = "transportError" THEN Err("NetworkError")
    ELSE IF ~IsSuccess(resp.status) THEN Err("ApiError")
    ELSE IF ~resp.isJson THEN Err("ParseError")
    ELSE IF IndexK(IndexN(resp.data, 0), "timeSeries") = JNull THEN Err("ParseError")
    ELSE Ok(ExtractWeather(resp.data))
\* lines 72-122: fetch_weather_info
FetchWeatherInfo(resp) ==
    IF resp.kind = "transportError" THEN Err("NetworkError")
    ELSE IF ~IsSuccess(resp.status) THEN Err("ApiError")
    ELSE IF ~resp.isJson THEN Err("ParseError")
    ELSE Ok(ExtractWeather(resp.data))

\* lines 184-206 and 220-242: the canned records
MockWeathers(region) ==
    IF region = "tokyo"
    THEN << [description |-> "hare", temperature |-> 225, weather_code |-> "100",
             humidity |-> 45, icon |-> "01d"],
            [description |-> "kumori", temperature |-> 183, weather_code |-> "110",
             humidity |-> 65, icon |-> "03d"],
            [description |-> "kosame", temperature |-> 158, weather_code |-> "120",
             humidity |-> 78, icon |-> "10d"] >>
    ELSE << [description |-> "Fukuoka - hare", temperature |-> 235, weather_code |-> "100",
             humidity |-> 42, icon |-> "01d"],
            [description |-> "Fukuoka - kumori", temperature |-> 198, weather_code |-> "110",
             humidity |-> 60, icon |-> "03d"],
            [description |-> "Fukuoka - kosame", temperature |-> 172, weather_code |-> "120",
             humidity |-> 75, icon |-> "10d"] >>

DemoIndexPeriodTwo(m) == m % (DemoLen - 1)
\* let index = (now.minute() % 3) as usize;
DemoIndex(m) == m % DemoLen

\* Ok(mock_weathers[index].clone())
DemoWeather(region, m) == Ok(MockWeathers(region)[DemoIndex(m) + 1])

\* ------------------------------------------- what the forecast server sends
TableCodes == UNION {IconArms[i].codes : i \in 1..Len(IconArms)}
OtherCodes == {"", "105", "200", "999", "abc"}
Codes      == TableCodes \cup OtherCodes
TempTexts  == {"22.5", "8", "-3.1", "abc"}
Statuses   == {200, 204, 404, 500}
Shapes     == {"full", "oneBlock", "emptyAreas", "noTimeSeries", "emptyObject",
               "emptyArray", "numberCode"}

Area0(code)    == JObj([weatherCodes |-> JArr(<<JStr(code)>>),
                        weathers |-> JArr(<<JStr("hare")>>)])
Block(areas)   == JObj([areas |-> JArr(areas)])
Forecast(blocks) ==
    JArr(<<JObj([publishingOffice |-> JStr("JMA"), timeSeries |-> JArr(blocks)])>>)

Document(shape, code, temp) ==
    CASE shape = "full" ->
            Forecast(<<Block(<<Area0(code)>>), Block(<<>>),
                       Block(<<JObj([temps |-> JArr(<<JStr(temp)>>)])>>)>>)
      [] shape = "oneBlock"     -> Forecast(<<Block(<<Area0(code)>>)>>)
      [] shape = "emptyAreas"   -> Forecast(<<Block(<<>>), Block(<<>>), Block(<<>>)>>)
      [] shape = "numberCode"   ->
            Forecast(<<Block(<<JObj([weatherCodes |-> JArr(<<JNull>>)])>>)>>)
      [] shape = "noTimeSeries" -> JArr(<<JObj([publishingOffice |-> JStr("JMA")])>>)
      [] shape = "emptyObject"  -> JObj(<<>>)
      [] OTHER                  -> JArr(<<>>)

HttpResponse(status, isJson, data) ==
    [kind |-> "http", status |-> status, isJson |-> isJson, data |-> data]

\* lines 126-128, 132-134: the two live commands differ in the URL only
LiveWeather(cmd) ==
    /\ \/ wresp' = [kind |-> "transportError"]
       \/ \E status \in Statuses : wresp' = HttpResponse(status, FALSE, JNull)
       \/ \E status \in Statuses, shape \in Shapes :
             wresp' = HttpResponse(status, TRUE, Document(shape, "100", "22.5"))
       \/ \E code \in Codes, temp \in TempTexts :
             wresp' = HttpResponse(200, TRUE, Document("full", code, temp))
    /\ wresult' = FetchWeatherInfo(wresp')
    /\ wcmd' = cmd
    /\ wminute' = 0
    /\ UNCHANGED schedVars

GetTokyoWeather   == LiveWeather("get_tokyo_weather")
GetFukuokaWeather == LiveWeather("get_fukuoka_weather")

\* lines 182-214, 218-250
DemoCommand(cmd, region) ==
    /\ \E m \in 0..(MinutesPerHour - 1) : wminute' = m
    /\ wresult' = DemoWeather(region, wminute')
    /\ wresp' = [kind |-> "none"]
    /\ wcmd' = cmd
    /\ UNCHANGED schedVars

GetTokyoWeatherDemo   == DemoCommand("get_tokyo_weather_demo", "tokyo")
GetFukuokaWeatherDemo == DemoCommand("get_fukuoka_weather_demo", "fukuoka")

WeatherNext == GetTokyoWeather \/ GetFukuokaWeather
               \/ GetTokyoWeatherDemo \/ GetFukuokaWeatherDemo

WeatherInit == InitSched({0}) /\ InitWeather

WeatherSpec == WeatherInit /\ [][WeatherNext]_vars

\* ========================================================= weather claims
IsLive == wcmd \in {"get_tokyo_weather", "get_fukuoka_weather"}
IsDemo == wcmd \in {"get_tokyo_weather_demo", "get_fukuoka_weather_demo"}
Region == IF wcmd = "get_tokyo_weather_demo" THEN "tokyo" ELSE "fukuoka"

\* the icon bucket table as documented, in its listed order
BucketTable == <<
    <<"01d", {"100", "123", "124", "130", "131"}>>,
    <<"02d", {"101", "132", "140", "160", "170"}>>,
    <<"03d", {"102", "104", "115", "116", "141", "142"}>>,
    <<"04d", {"103", "106", "107", "108", "128", "143", "150"}>>,
    <<"09d", {"110", "111", "112", "113", "114", "118", "119", "125", "126", "127",
              "153", "154", "155", "181"}>>,
    <<"11d", {"117", "181"}>>,
    <<"13d", {"120", "121", "122", "156", "157", "160"}>> >>

RECURSIVE FirstBucket(_, _)
FirstBucket(code, k) ==
    IF k > Len(BucketTable) THEN "50d"
    ELSE IF code \in BucketTable[k][2] THEN BucketTable[k][1]
    ELSE FirstBucket(code, k + 1)

\* C3: the icon of a fetched record is that of the first bucket of the
\* documented table that lists the record's weather code, and "50d" when
\* no bucket lists it; 160 gives 02d and 181 gives 09d.
IconFirstMatch ==
    (IsLive /\ wresult.kind = "Ok") =>
        /\ wresult.info.icon = FirstBucket(wresult.info.weather_code, 1)
        /\ (wresult.info.weather_code = "160" => wresult.info.icon = "02d")
        /\ (wresult.info.weather_code = "181" => wresult.info.icon = "09d")
        /\ (wresult.info.weather_code \notin TableCodes => wresult.info.icon = "50d")

\* C3 witness: a forecast with code 181 was fetched and got icon 09d.
IconFirstMatchWitness ==
    /\ IsLive /\ wresult.kind = "Ok"
    /\ wresult.info.weather_code = "181" /\ wresult.info.icon = "09d"

\* a 2xx response whose body is JSON without the timeSeries field
LacksTimeSeries ==
    /\ IsLive /\ wresp.kind = "http" /\ IsSuccess(wresp.status) /\ wresp.isJson
    /\ IndexK(IndexN(wresp.data, 0), "timeSeries") = JNull

\* C4 as claimed: a 2xx JSON body without timeSeries gives a ParseError.
MissingTimeSeriesIsParseError ==
    LacksTimeSeries => wresult = Err("ParseError")

\* C4 as amended: a 2xx JSON body without timeSeries gives Ok with the
\* extraction defaults (code "", description unknown, temperature 0.0,
\* humidity 50, icon 50d); a ParseError comes only from a 2xx body that is
\* no JSON; the command always returns Ok or Err.
MissingTimeSeriesGivesDefaults ==
    /\ LacksTimeSeries =>
          wresult = Ok([description |-> "fumei", temperature |-> 0,
                        weather_code |-> "", humidity |-> 50, icon |-> "50d"])
    /\ IsLive => wresult.kind \in {"Ok", "Err"}
    /\ (IsLive /\ wresult = Err("ParseError")) =>
          (wresp.kind = "http" /\ IsSuccess(wresp.status) /\ ~wresp.isJson)

\* C4 witness: such a body was fetched and the command returned Ok.
MissingTimeSeriesWitness ==
    LacksTimeSeries /\ wresult.kind = "Ok" /\ wresp.data # JObj(<<>>)

\* C5 as claimed: every record a weather command returns has an icon of
\* the bucket table.
IconInClosedSet ==
    (wresult.kind = "Ok") =>
        wresult.info.icon \in {"01d", "02d", "03d", "04d", "09d", "11d", "13d", "50d"}

\* C7: a demo command returns Ok with the record at index (minute mod 3)
\* of its region's list, which is also the record of three minutes later,
\* the hour wrapping from 59 to 0.
DemoPeriodThree ==
    IsDemo =>
        /\ wresult.kind = "Ok"
        /\ wresult.info = MockWeathers(Region)[(wminute % 3) + 1]
        /\ wresult = DemoWeather(Region, (wminute + 3) % 60)

\* C7 witness: the demo ran at minute 59 and returned the third record.
DemoPeriodThreeWitness ==
    /\ IsDemo /\ wminute = 59
    /\ wresult.kind = "Ok" /\ wresult.info.weather_code = "120"

====
